---- MODULE Spec2Model ----
(***************************************************************************)
(* Model of "Chapter 16/Lookup/algorithms.py": the digest algorithm        *)
(* registry (the module-level dict `algorithms`), the BaseAlgorithm data   *)
(* interface (constructor, `data` property, update, digest, hexdigest) and *)
(* the per-algorithm digest adapters over hashlib, passlib and whirlpool.  *)
(*                                                                         *)
(* Values are tagged with their Python type: [t |-> type name, v |-> seq]. *)
(* bytes are sequences of integers 0..255, str are sequences of code       *)
(* points, the text that passlib returns is a sequence of one-character    *)
(* strings.  The hash primitives themselves are outside the repository;    *)
(* they are modelled as deterministic functions of their whole input with  *)
(* the output width and textual format of the real primitive.              *)
(***************************************************************************)
EXTENDS Integers, Sequences, FiniteSets, TLC

VARIABLES
    caps,         \* what the runtime provides (import results, hashlib support)
    algorithms,   \* the registry dict: key -> class name
    objs,         \* the algorithm instances: object name -> [cls, _data]
    acc,          \* history: per object, the accepted data in call order
    ret,          \* outcome of the last operation
    caps2,        \* a second run of the module: its capabilities
    algorithms2,  \* a second run of the module: its registry
    ret2,         \* a second run of the module: outcome of its last operation
    hashPart      \* the HASH_PART produced from the last digest

vars == <<caps, algorithms, objs, acc, ret, caps2, algorithms2, ret2, hashPart>>

----------------------------------------------------------------------------
(* Bounds of the model *)

\* updates / assignments applied to one instance after its construction
MaxUpdates == 2

\* longest raw byte string handed directly to the key encoder
MaxRawLen == 9

----------------------------------------------------------------------------
(* Python values *)

Bytes(s) == [t |-> "bytes", v |-> s]
Str(s) == [t |-> "str", v |-> s]
NoneVal == [t |-> "NoneType", v |-> <<>>]
IntVal(n) == [t |-> "int", v |-> <<n>>]

Rep(b, n) == [i \in 1..n |-> b]

Take(s, n) == SubSeq(s, 1, IF Len(s) < n THEN Len(s) ELSE n)

Drop(s, n) == SubSeq(s, (IF Len(s) < n THEN Len(s) ELSE n) + 1, Len(s))

RECURSIVE Flatten(_)
Flatten(ss) == IF ss = <<>> THEN <<>> ELSE Head(ss) \o Flatten(Tail(ss))

\* UTF-8 encoding of one code point (str.encode() default codec)
Utf8(cp) ==
    IF cp < 128 THEN <<cp>>
    ELSE IF cp < 2048 THEN <<192 + (cp \div 64), 128 + (cp % 64)>>
    ELSE IF cp < 65536
         THEN <<224 + (cp \div 4096), 128 + ((cp \div 64) % 64), 128 + (cp % 64)>>
    ELSE <<240 + (cp \div 262144), 128 + ((cp \div 4096) % 64),
           128 + ((cp \div 64) % 64), 128 + (cp % 64)>>

IsSurrogate(cp) == cp >= 55296 /\ cp <= 57343

\* str.encode(): UTF-8, strict; a lone surrogate cannot be encoded
StrEncode(s) ==
    IF \E i \in 1..Len(s) : IsSurrogate(s[i])
    THEN [err |-> "UnicodeEncodeError", val |-> <<>>]
    ELSE [err |-> "None", val |-> Flatten([i \in 1..Len(s) |-> Utf8(s[i])])]

----------------------------------------------------------------------------
(* binascii *)

HexDigits == <<"0", "1", "2", "3", "4", "5", "6", "7",
               "8", "9", "a", "b", "c", "d", "e", "f">>

UpperHexDigits == <<"0", "1", "2", "3", "4", "5", "6", "7",
                    "8", "9", "A", "B", "C", "D", "E", "F">>

\* the value of each hexadecimal digit, either case
HexValues ==
    [ch \in {HexDigits[n] : n \in 1..16} \cup {UpperHexDigits[n] : n \in 1..16} |->
        IF \E n \in 1..16 : HexDigits[n] = ch
        THEN (CHOOSE n \in 1..16 : HexDigits[n] = ch) - 1
        ELSE (CHOOSE n \in 1..16 : UpperHexDigits[n] = ch) - 1]

\* the value of a hexadecimal digit, -1 for any other character
HexVal(ch) == IF ch \in DOMAIN HexValues THEN HexValues[ch] ELSE -1

\* the hexadecimal text of a byte string, as the passlib handlers format it
HexText(bs, digits) ==
    [i \in 1..(2 * Len(bs)) |->
        IF i % 2 = 1 THEN digits[(bs[(i + 1) \div 2] \div 16) + 1]
                     ELSE digits[(bs[i \div 2] % 16) + 1]]

\* binascii.unhexlify: text of an even number of hex digits -> bytes
unhexlify(text) ==
    IF Len(text) % 2 = 1
    THEN [err |-> "binascii.Error", val |-> <<>>]
    ELSE IF \E i \in 1..Len(text) : HexVal(text[i]) < 0
    THEN [err |-> "binascii.Error", val |-> <<>>]
    ELSE [err |-> "None",
          val |-> [i \in 1..(Len(text) \div 2) |->
                     16 * HexVal(text[2 * i - 1]) + HexVal(text[2 * i])]]

\* binascii.hexlify: bytes -> the ASCII codes of the lowercase hex digits
HexCode(n) == IF n < 10 THEN 48 + n ELSE 87 + n

hexlify(bs) ==
    [i \in 1..(2 * Len(bs)) |->
        IF i % 2 = 1 THEN HexCode(bs[(i + 1) \div 2] \div 16)
                     ELSE HexCode(bs[i \div 2] % 16)]

----------------------------------------------------------------------------
(* The hash primitives (hashlib, passlib.hash, whirlpool).  Each is a      *)
(* deterministic function of every byte of its input and of its length.    *)

RECURSIVE MixRange(_, _, _)
MixRange(s, lo, hi) ==
    IF lo > hi THEN 7
    ELSE IF lo = hi THEN (s[lo] + 1 + 131 * lo) % 65521
    ELSE LET mid == (lo + hi) \div 2
         IN  (MixRange(s, lo, mid) * 31 + MixRange(s, mid + 1, hi) * 17 + 1) % 65521

Mix(s) == (MixRange(s, 1, Len(s)) + 257 * Len(s)) % 65521

PrimTag(name) ==
    CASE name = "md4" -> 1 [] name = "md5" -> 2 [] name = "sha1" -> 3
      [] name = "sha224" -> 4 [] name = "sha256" -> 5 [] name = "sha384" -> 6
      [] name = "sha512" -> 7 [] name = "ripemd160" -> 8
      [] name = "sha3_224" -> 9 [] name = "sha3_256" -> 10
      [] name = "sha3_384" -> 11 [] name = "sha3_512" -> 12
      [] name = "whirlpool" -> 13 [] name = "lmhash" -> 14
      [] name = "nthash" -> 15 [] name = "mysql323" -> 16
      [] name = "mysql41" -> 17 [] name = "oracle10" -> 18
      [] name = "postgres_md5" -> 19 [] name = "msdcc" -> 20
      [] name = "msdcc2" -> 21

UserTag(user) ==
    CASE user = "" -> 0 [] user = "SYS" -> 1 [] user = "SYSTEM" -> 2
      [] user = "root" -> 3 [] user = "postgres" -> 4 [] user = "admin" -> 5
      [] user = "administrator" -> 6

\* width bytes determined by the primitive, the salt and the whole input
RawHash(name, user, input, width) ==
    LET h == Mix(input)
        t == PrimTag(name) + 32 * UserTag(user)
    IN  [i \in 1..width |-> (h * (i + t) + (h \div 256) + i * t) % 256]

\* digest size in bytes of the hashlib / whirlpool primitives
HashWidth(name) ==
    CASE name \in {"md4", "md5"} -> 16
      [] name \in {"sha1", "ripemd160"} -> 20
      [] name \in {"sha224", "sha3_224"} -> 28
      [] name \in {"sha256", "sha3_256"} -> 32
      [] name \in {"sha384", "sha3_384"} -> 48
      [] name \in {"sha512", "sha3_512", "whirlpool"} -> 64

\* hashlib.new(name, data).digest() and the named constructors:
\* md4 and ripemd160 exist only when the OpenSSL build provides them
hashlib_digest(c, name, data) ==
    IF (name = "md4" /\ ~c.md4) \/ (name = "ripemd160" /\ ~c.ripemd160)
    THEN [err |-> "ValueError", val |-> <<>>]
    ELSE [err |-> "None", val |-> RawHash(name, "", data, HashWidth(name))]

\* whirlpool.new(data).digest(); the name `whirlpool` is None after a failed import
whirlpool_digest(c, data) ==
    IF ~c.whirlpool
    THEN [err |-> "AttributeError", val |-> <<>>]
    ELSE [err |-> "None", val |-> RawHash("whirlpool", "", data, HashWidth("whirlpool"))]

\* ASCII upper-casing of a byte string
Upper(bs) == [i \in 1..Len(bs) |-> IF bs[i] >= 97 /\ bs[i] <= 122 THEN bs[i] - 32 ELSE bs[i]]

\* passlib.hash.<handler>.encrypt(secret, user=...): the handler's hash text.
\* The handler names are unbound after a failed import of passlib.
passlib_encrypt(c, handler, secret, user) ==
    IF ~c.passlib THEN [err |-> "NameError", val |-> <<>>]
    ELSE [err |-> "None", val |->
        CASE handler = "lmhash" ->
               HexText(RawHash(handler, "", Upper(Take(secret, 14)), 16), HexDigits)
          [] handler = "nthash" ->
               HexText(RawHash(handler, "", secret, 16), HexDigits)
          [] handler = "mysql323" ->
               HexText(RawHash(handler, "", secret, 8), HexDigits)
          [] handler = "mysql41" ->
               <<"*">> \o HexText(RawHash(handler, "", secret, 20), UpperHexDigits)
          [] handler = "oracle10" ->
               HexText(RawHash(handler, user, secret, 8), UpperHexDigits)
          [] handler = "postgres_md5" ->
               <<"m", "d", "5">> \o HexText(RawHash(handler, user, secret, 16), HexDigits)
          [] handler = "msdcc" ->
               HexText(RawHash(handler, user, secret, 16), HexDigits)
          [] handler = "msdcc2" ->
               HexText(RawHash(handler, user, secret, 16), HexDigits)]

\* unhexlify(<text expression>): an exception inside the argument propagates
unhexlify_of(r) == IF r.err # "None" THEN r ELSE unhexlify(r.val)

----------------------------------------------------------------------------
(* The algorithm classes: class attributes *)

HashlibClasses == {"Md4", "Md5", "Sha1", "Sha224", "Sha256", "Sha384", "Sha512"}

Sha3Classes == {"Sha3_224", "Sha3_256", "Sha3_384", "Sha3_512"}

PasslibClasses == {"Lm", "Ntlm", "MySql323", "MySql41", "Oracle10_Sys",
                   "Oracle10_System", "Msdcc_Administrator", "Msdcc2_Administrator",
                   "PostgresMd5_Admin", "PostgresMd5_Postgres", "PostgresMd5_Root"}

Classes == HashlibClasses \cup Sha3Classes \cup PasslibClasses \cup {"Ripemd160", "Whirlpool"}

\* faulty variant: Ntlm carries the key of Md4
ClassKey_Collide(cls) ==
    CASE cls \in {"Md4", "Ntlm"} -> "md4" [] cls = "Md5" -> "md5" [] cls = "Sha1" -> "sha1"
      [] cls = "Sha224" -> "sha2-224" [] cls = "Sha256" -> "sha2-256"
      [] cls = "Sha384" -> "sha2-384" [] cls = "Sha512" -> "sha2-512"
      [] cls = "Ripemd160" -> "ripemd160"
      [] cls = "Sha3_224" -> "sha3-224" [] cls = "Sha3_256" -> "sha3-256"
      [] cls = "Sha3_384" -> "sha3-384" [] cls = "Sha3_512" -> "sha3-512"
      [] cls = "Lm" -> "lm"
      [] cls = "MySql323" -> "mysql323" [] cls = "MySql41" -> "mysql41"
      [] cls = "Oracle10_Sys" -> "oracle10g-sys"
      [] cls = "Oracle10_System" -> "oracle10g-system"
      [] cls = "PostgresMd5_Root" -> "postgres_md5-root"
      [] cls = "PostgresMd5_Postgres" -> "postgres_md5-postgres"
      [] cls = "PostgresMd5_Admin" -> "postgres_md5-admin"
      [] cls = "Msdcc_Administrator" -> "msdcc-administrator"
      [] cls = "Msdcc2_Administrator" -> "msdcc2-administrator"
      [] cls = "Whirlpool" -> "whirlpool"

\* the `key` attribute of a class
ClassKey(cls) ==
    CASE cls = "Md4" -> "md4" [] cls = "Md5" -> "md5" [] cls = "Sha1" -> "sha1"
      [] cls = "Sha224" -> "sha2-224" [] cls = "Sha256" -> "sha2-256"
      [] cls = "Sha384" -> "sha2-384" [] cls = "Sha512" -> "sha2-512"
      [] cls = "Ripemd160" -> "ripemd160"
      [] cls = "Sha3_224" -> "sha3-224" [] cls = "Sha3_256" -> "sha3-256"
      [] cls = "Sha3_384" -> "sha3-384" [] cls = "Sha3_512" -> "sha3-512"
      [] cls = "Lm" -> "lm" [] cls = "Ntlm" -> "ntlm"
      [] cls = "MySql323" -> "mysql323" [] cls = "MySql41" -> "mysql41"
      [] cls = "Oracle10_Sys" -> "oracle10g-sys"
      [] cls = "Oracle10_System" -> "oracle10g-system"
      [] cls = "PostgresMd5_Root" -> "postgres_md5-root"
      [] cls = "PostgresMd5_Postgres" -> "postgres_md5-postgres"
      [] cls = "PostgresMd5_Admin" -> "postgres_md5-admin"
      [] cls = "Msdcc_Administrator" -> "msdcc-administrator"
      [] cls = "Msdcc2_Administrator" -> "msdcc2-administrator"
      [] cls = "Whirlpool" -> "whirlpool"

\* the `hex_length` attribute of a class (inherited from Oracle10 / PostgresMd5)
HexLength(cls) ==
    CASE cls \in {"Md4", "Md5", "Lm", "Ntlm", "Msdcc_Administrator",
                  "Msdcc2_Administrator", "PostgresMd5_Root",
                  "PostgresMd5_Postgres", "PostgresMd5_Admin"} -> 32
      [] cls \in {"Sha1", "Ripemd160", "MySql41"} -> 40
      [] cls \in {"Sha224", "Sha3_224"} -> 56
      [] cls \in {"Sha256", "Sha3_256"} -> 64
      [] cls \in {"Sha384", "Sha3_384"} -> 96
      [] cls \in {"Sha512", "Sha3_512", "Whirlpool"} -> 128
      [] cls \in {"MySql323", "Oracle10_Sys", "Oracle10_System"} -> 16

\* the `_user` attribute of the salted classes
ClassUser(cls) ==
    CASE cls = "Oracle10_Sys" -> "SYS"
      [] cls = "Oracle10_System" -> "SYSTEM"
      [] cls = "PostgresMd5_Root" -> "root"
      [] cls = "PostgresMd5_Postgres" -> "postgres"
      [] cls = "PostgresMd5_Admin" -> "admin"
      [] cls \in {"Msdcc_Administrator", "Msdcc2_Administrator"} -> "administrator"
      [] OTHER -> ""

----------------------------------------------------------------------------
(* The digest() method of each class; self is [cls, _data], the `data`     *)
(* property returns self._data.                                            *)

Md4_digest(c, self) == hashlib_digest(c, "md4", self._data.v)

Md5_digest(c, self) == hashlib_digest(c, "md5", self._data.v)

Sha1_digest(c, self) == hashlib_digest(c, "sha1", self._data.v)

Sha224_digest(c, self) == hashlib_digest(c, "sha224", self._data.v)

Sha256_digest(c, self) == hashlib_digest(c, "sha256", self._data.v)

Sha384_digest(c, self) == hashlib_digest(c, "sha384", self._data.v)

Sha512_digest(c, self) == hashlib_digest(c, "sha512", self._data.v)

Ripemd160_digest(c, self) == hashlib_digest(c, "ripemd160", self._data.v)

Sha3_224_digest(c, self) == hashlib_digest(c, "sha3_224", self._data.v)

Sha3_256_digest(c, self) == hashlib_digest(c, "sha3_256", self._data.v)

Sha3_384_digest(c, self) == hashlib_digest(c, "sha3_384", self._data.v)

Sha3_512_digest(c, self) == hashlib_digest(c, "sha3_512", self._data.v)

Lm_digest(c, self) ==
    unhexlify_of(passlib_encrypt(c, "lmhash", Take(self._data.v, 15), ""))

\* faulty variant: the candidate handed to nthash without the slice
Ntlm_digest_NoSlice(c, self) ==
    unhexlify_of(passlib_encrypt(c, "nthash", self._data.v, ""))

Ntlm_digest(c, self) ==
    unhexlify_of(passlib_encrypt(c, "nthash", Take(self._data.v, 127), ""))

MySql323_digest(c, self) ==
    unhexlify_of(passlib_encrypt(c, "mysql323", Take(self._data.v, 64), ""))

\* faulty variant: the "*" of the mysql41 text not removed
MySql41_digest_NoStrip(c, self) ==
    unhexlify_of(passlib_encrypt(c, "mysql41", Take(self._data.v, 64), ""))

MySql41_digest(c, self) ==
    LET r == passlib_encrypt(c, "mysql41", Take(self._data.v, 64), "")
    IN  unhexlify_of([r EXCEPT !.val = Drop(@, 1)])

Oracle10_digest(c, self) ==
    unhexlify_of(passlib_encrypt(c, "oracle10", Take(self._data.v, 64), ClassUser(self.cls)))

PostgresMd5_digest(c, self) ==
    LET r == passlib_encrypt(c, "postgres_md5", Take(self._data.v, 64), ClassUser(self.cls))
    IN  unhexlify_of([r EXCEPT !.val = Drop(@, 3)])

Msdcc_Administrator_digest(c, self) ==
    unhexlify_of(passlib_encrypt(c, "msdcc", Take(self._data.v, 64), ClassUser(self.cls)))

Msdcc2_Administrator_digest(c, self) ==
    unhexlify_of(passlib_encrypt(c, "msdcc2", Take(self._data.v, 64), ClassUser(self.cls)))

Whirlpool_digest(c, self) == whirlpool_digest(c, self._data.v)

\* self.digest(): dispatch on the class of the instance
digest(c, self) ==
    CASE self.cls = "Md4" -> Md4_digest(c, self)
      [] self.cls = "Md5" -> Md5_digest(c, self)
      [] self.cls = "Sha1" -> Sha1_digest(c, self)
      [] self.cls = "Sha224" -> Sha224_digest(c, self)
      [] self.cls = "Sha256" -> Sha256_digest(c, self)
      [] self.cls = "Sha384" -> Sha384_digest(c, self)
      [] self.cls = "Sha512" -> Sha512_digest(c, self)
      [] self.cls = "Ripemd160" -> Ripemd160_digest(c, self)
      [] self.cls = "Sha3_224" -> Sha3_224_digest(c, self)
      [] self.cls = "Sha3_256" -> Sha3_256_digest(c, self)
      [] self.cls = "Sha3_384" -> Sha3_384_digest(c, self)
      [] self.cls = "Sha3_512" -> Sha3_512_digest(c, self)
      [] self.cls = "Lm" -> Lm_digest(c, self)
      [] self.cls = "Ntlm" -> Ntlm_digest(c, self)
      [] self.cls = "MySql323" -> MySql323_digest(c, self)
      [] self.cls = "MySql41" -> MySql41_digest(c, self)
      [] self.cls \in {"Oracle10_Sys", "Oracle10_System"} -> Oracle10_digest(c, self)
      [] self.cls \in {"PostgresMd5_Root", "PostgresMd5_Postgres", "PostgresMd5_Admin"}
            -> PostgresMd5_digest(c, self)
      [] self.cls = "Msdcc_Administrator" -> Msdcc_Administrator_digest(c, self)
      [] self.cls = "Msdcc2_Administrator" -> Msdcc2_Administrator_digest(c, self)
      [] self.cls = "Whirlpool" -> Whirlpool_digest(c, self)

\* self.hexdigest(): hexlify(self.digest())
hexdigest(c, self) ==
    LET r == digest(c, self)
    IN  IF r.err # "None" THEN r ELSE [err |-> "None", val |-> hexlify(r.val)]

----------------------------------------------------------------------------
(* BaseAlgorithm: the data interface *)

\* an instance before __init__ has run: the class attribute _data = None
Blank(cls) == [cls |-> cls, _data |-> NoneVal]

\* faulty variant: the setter without the isinstance(value, bytes) test
data_setter_NoTypeTest(self, value) ==
    LET e == IF value.t = "str" THEN StrEncode(value.v) ELSE [err |-> "None", val |-> value.v]
        v == IF value.t = "str" THEN Bytes(e.val) ELSE value
    IN  IF e.err # "None" THEN [err |-> e.err, obj |-> self]
        ELSE [err |-> "None", obj |-> [self EXCEPT !._data = v]]

\* the `data` setter
data_setter(self, value) ==
    LET e == IF value.t = "str" THEN StrEncode(value.v) ELSE [err |-> "None", val |-> value.v]
        v == IF value.t = "str" THEN Bytes(e.val) ELSE value
    IN  IF e.err # "None" THEN [err |-> e.err, obj |-> self]
        ELSE IF v.t # "bytes" THEN [err |-> "TypeError", obj |-> self]
        ELSE [err |-> "None", obj |-> [self EXCEPT !._data = v]]

\* __init__(self, data=None)
init(self, data) ==
    data_setter(self, IF data.t # "NoneType" THEN data ELSE Bytes(<<>>))

\* faulty variant: update assigns where it should append
update_Assign(self, data) ==
    LET e == IF data.t = "str" THEN StrEncode(data.v) ELSE [err |-> "None", val |-> data.v]
        v == IF data.t = "str" THEN Bytes(e.val) ELSE data
    IN  IF e.err # "None" THEN [err |-> e.err, obj |-> self]
        ELSE IF v.t # "bytes" THEN [err |-> "TypeError", obj |-> self]
        ELSE [err |-> "None", obj |-> [self EXCEPT !._data = v]]

\* faulty variant: update clears the data before it tests the type
update_ClearFirst(self, data) ==
    LET e == IF data.t = "str" THEN StrEncode(data.v) ELSE [err |-> "None", val |-> data.v]
        v == IF data.t = "str" THEN Bytes(e.val) ELSE data
        cleared == [self EXCEPT !._data = Bytes(<<>>)]
    IN  IF e.err # "None" THEN [err |-> e.err, obj |-> self]
        ELSE IF v.t # "bytes" THEN [err |-> "TypeError", obj |-> cleared]
        ELSE [err |-> "None", obj |-> [self EXCEPT !._data = Bytes(self._data.v \o v.v)]]

\* update(self, data)
update(self, data) ==
    LET e == IF data.t = "str" THEN StrEncode(data.v) ELSE [err |-> "None", val |-> data.v]
        v == IF data.t = "str" THEN Bytes(e.val) ELSE data
    IN  IF e.err # "None" THEN [err |-> e.err, obj |-> self]
        ELSE IF v.t # "bytes" THEN [err |-> "TypeError", obj |-> self]
        ELSE IF self._data.t # "bytes" THEN [err |-> "TypeError", obj |-> self]
        ELSE [err |-> "None", obj |-> [self EXCEPT !._data = Bytes(self._data.v \o v.v)]]

----------------------------------------------------------------------------
(* The registry, populated when the module is imported *)

DictSet(d, k, v) == [x \in (DOMAIN d) \cup {k} |-> IF x = k THEN v ELSE d[x]]

RECURSIVE RegisterAll(_, _)
RegisterAll(d, classes) ==
    IF classes = <<>> THEN d
    ELSE RegisterAll(DictSet(d, ClassKey(Head(classes)), Head(classes)), Tail(classes))

\* hasattr(hashlib, "algorithms_available"): the attribute exists in every Python 3
HasAlgorithmsAvailable == TRUE

\* algorithms = { Md4.key: Md4, ..., Sha3_512.key: Sha3_512 }
BaseAlgorithms ==
    RegisterAll(<<>>, <<"Md4", "Md5", "Sha1", "Sha224", "Sha256", "Sha384", "Sha512",
                        "Sha3_224", "Sha3_256", "Sha3_384", "Sha3_512">>)

RegisterRipemd160(c, d) ==
    IF HasAlgorithmsAvailable /\ c.ripemd160
    THEN RegisterAll(d, <<"Ripemd160">>) ELSE d

\* faulty variant: the passlib classes registered without testing the import
RegisterPasslib_Always(c, d) ==
    RegisterAll(d, <<"Lm", "Ntlm", "MySql323", "MySql41", "Oracle10_Sys",
                     "Oracle10_System", "Msdcc_Administrator",
                     "Msdcc2_Administrator", "PostgresMd5_Admin",
                     "PostgresMd5_Postgres", "PostgresMd5_Root">>)

RegisterPasslib(c, d) ==
    IF c.passlib
    THEN RegisterAll(d, <<"Lm", "Ntlm", "MySql323", "MySql41", "Oracle10_Sys",
                          "Oracle10_System", "Msdcc_Administrator",
                          "Msdcc2_Administrator", "PostgresMd5_Admin",
                          "PostgresMd5_Postgres", "PostgresMd5_Root">>)
    ELSE d

\* faulty variant: Whirlpool registered without testing the import
RegisterWhirlpool_Always(c, d) == RegisterAll(d, <<"Whirlpool">>)

RegisterWhirlpool(c, d) ==
    IF c.whirlpool THEN RegisterAll(d, <<"Whirlpool">>) ELSE d

\* the value of `algorithms` once the module body has run
BuildRegistry(c) ==
    RegisterWhirlpool(c, RegisterPasslib(c, RegisterRipemd160(c, BaseAlgorithms)))

\* algorithms[key]: the dict subscript of a caller
lookup(d, key) ==
    IF key \in DOMAIN d THEN [err |-> "None", cls |-> d[key]]
    ELSE [err |-> "KeyError", cls |-> "None"]

----------------------------------------------------------------------------
(* The HASH_PART of a record of the lookup table, as the module docstring  *)
(* and the specification define it.                                        *)

\* bytes in a HASH_PART: "the first 64 BITS of the hash"
KeyBytes == 8

\* faulty variant: a short digest left unpadded
encodeKey_NoPad(d) == Take(d, KeyBytes)

encodeKey(d) ==
    IF Len(d) >= KeyBytes THEN Take(d, KeyBytes)
    ELSE d \o Rep(0, KeyBytes - Len(d))

----------------------------------------------------------------------------
(* State machine *)

Insts == {"x", "y"}

AllCaps == [md4 : BOOLEAN, ripemd160 : BOOLEAN, passlib : BOOLEAN, whirlpool : BOOLEAN]

FullCaps == [md4 |-> TRUE, ripemd160 |-> TRUE, passlib |-> TRUE, whirlpool |-> TRUE]

Keys == {ClassKey(cls) : cls \in Classes} \cup {"does-not-exist"}

\* the bytes a constructor / update / assignment argument stands for
ArgBytes(d) == IF d.t = "str" THEN Flatten([i \in 1..Len(d.v) |-> Utf8(d.v[i])]) ELSE d.v

NoRet == [op |-> "none", obj |-> "-", key |-> "-", arg |-> NoneVal,
          err |-> "None", cls |-> "None", val |-> <<>>]

NoHashPart == [set |-> FALSE, src |-> <<>>, key |-> <<>>]

InitWith(c, c2) ==
    /\ caps = c
    /\ algorithms = BuildRegistry(c)
    /\ objs = [i \in Insts |-> Blank("None")]
    /\ acc = [i \in Insts |-> [v |-> <<>>, n |-> 0]]
    /\ ret = NoRet
    /\ caps2 = c2
    /\ algorithms2 = BuildRegistry(c2)
    /\ ret2 = NoRet
    /\ hashPart = NoHashPart

\* cls = algorithms[k]
Lookup(k) ==
    LET r == lookup(algorithms, k)
    IN  /\ ret' = [NoRet EXCEPT !.op = "lookup", !.key = k, !.err = r.err, !.cls = r.cls]
        /\ UNCHANGED <<caps, algorithms, objs, acc, caps2, algorithms2, ret2, hashPart>>

\* i = algorithms[k](d)
New(i, k, d) ==
    /\ objs[i].cls = "None"
    /\ LET r == lookup(algorithms, k)
           n == init(Blank(r.cls), d)
           e == IF r.err # "None" THEN r.err ELSE n.err
       IN  /\ ret' = [NoRet EXCEPT !.op = "new", !.obj = i, !.key = k, !.arg = d,
                                   !.err = e, !.cls = r.cls]
           /\ IF e = "None"
              THEN /\ objs' = [objs EXCEPT ![i] = n.obj]
                   /\ acc' = [acc EXCEPT ![i] = [v |-> ArgBytes(d), n |-> 0]]
              ELSE UNCHANGED <<objs, acc>>
    /\ UNCHANGED <<caps, algorithms, caps2, algorithms2, ret2, hashPart>>

\* i.data = d
SetData(i, d) ==
    /\ objs[i].cls # "None"
    /\ acc[i].n < MaxUpdates
    /\ LET r == data_setter(objs[i], d)
       IN  /\ ret' = [NoRet EXCEPT !.op = "setdata", !.obj = i, !.arg = d, !.err = r.err,
                                   !.cls = objs[i].cls]
           /\ objs' = [objs EXCEPT ![i] = r.obj]
           /\ acc' = IF r.err = "None"
                     THEN [acc EXCEPT ![i] = [v |-> ArgBytes(d), n |-> @.n + 1]]
                     ELSE acc
    /\ UNCHANGED <<caps, algorithms, caps2, algorithms2, ret2, hashPart>>

\* i.update(d)
Update(i, d) ==
    /\ objs[i].cls # "None"
    /\ acc[i].n < MaxUpdates
    /\ LET r == update(objs[i], d)
       IN  /\ ret' = [NoRet EXCEPT !.op = "update", !.obj = i, !.arg = d, !.err = r.err,
                                   !.cls = objs[i].cls]
           /\ objs' = [objs EXCEPT ![i] = r.obj]
           /\ acc' = IF r.err = "None"
                     THEN [acc EXCEPT ![i] = [v |-> @.v \o ArgBytes(d), n |-> @.n + 1]]
                     ELSE acc
    /\ UNCHANGED <<caps, algorithms, caps2, algorithms2, ret2, hashPart>>

\* i.digest()
Digest(i) ==
    /\ objs[i].cls # "None"
    /\ LET r == digest(caps, objs[i])
       IN  ret' = [NoRet EXCEPT !.op = "digest", !.obj = i, !.key = ClassKey(objs[i].cls),
                                !.err = r.err, !.cls = objs[i].cls, !.val = r.val]
    /\ UNCHANGED <<caps, algorithms, objs, acc, caps2, algorithms2, ret2, hashPart>>

\* i.hexdigest()
Hexdigest(i) ==
    /\ objs[i].cls # "None"
    /\ LET r == hexdigest(caps, objs[i])
       IN  ret' = [NoRet EXCEPT !.op = "hexdigest", !.obj = i, !.key = ClassKey(objs[i].cls),
                                !.err = r.err, !.cls = objs[i].cls, !.val = r.val]
    /\ UNCHANGED <<caps, algorithms, objs, acc, caps2, algorithms2, ret2, hashPart>>

\* the HASH_PART of the digest just computed
EncodeKey ==
    /\ ret.op = "digest"
    /\ ret.err = "None"
    /\ hashPart' = [set |-> TRUE, src |-> ret.val, key |-> encodeKey(ret.val)]
    /\ UNCHANGED <<caps, algorithms, objs, acc, ret, caps2, algorithms2, ret2>>

\* the HASH_PART of an arbitrary byte string
EncodeRaw(d) ==
    /\ hashPart' = [set |-> TRUE, src |-> d, key |-> encodeKey(d)]
    /\ UNCHANGED <<caps, algorithms, objs, acc, ret, caps2, algorithms2, ret2>>

\* cls(d).digest() in one run of the module, cls the outcome r of its lookup
RunDigest(c, r, d) ==
    LET n == init(Blank(r.cls), d)
        g == digest(c, n.obj)
    IN  IF r.err # "None"
        THEN [NoRet EXCEPT !.op = "run", !.key = r.key, !.arg = d, !.err = r.err]
        ELSE IF n.err # "None"
        THEN [NoRet EXCEPT !.op = "run", !.key = r.key, !.arg = d, !.err = n.err,
                           !.cls = r.cls]
        ELSE [NoRet EXCEPT !.op = "run", !.key = r.key, !.arg = d, !.err = g.err,
                           !.cls = r.cls, !.val = g.val]

\* the same lookup in both runs
PairLookup(k) ==
    LET r == lookup(algorithms, k)
        r2 == lookup(algorithms2, k)
    IN  /\ ret' = [NoRet EXCEPT !.op = "lookup", !.key = k, !.err = r.err, !.cls = r.cls]
        /\ ret2' = [NoRet EXCEPT !.op = "lookup", !.key = k, !.err = r2.err, !.cls = r2.cls]
        /\ UNCHANGED <<caps, algorithms, objs, acc, caps2, algorithms2, hashPart>>

\* the same candidate digested in both runs by the class each run looked up
PairDigest(d) ==
    /\ ret.op = "lookup"
    /\ ret' = RunDigest(caps, ret, d)
    /\ ret2' = RunDigest(caps2, ret2, d)
    /\ UNCHANGED <<caps, algorithms, objs, acc, caps2, algorithms2, hashPart>>

----------------------------------------------------------------------------
(* Inputs *)

SmallInputs == {NoneVal, Bytes(<<97>>)}

DataInputs == {NoneVal, Bytes(<<97>>), Str(<<8364>>), Str(<<55296>>), IntVal(5)}

DataKeys == {"md5", "does-not-exist"}

LongInputs == {Bytes(<<>>), Bytes(Rep(97, 15)), Bytes(Rep(97, 64)), Bytes(Rep(97, 127))}

TailInputs == {Bytes(<<97>>), Bytes(<<98>>)}

RawDigests == {Rep(b, n) : b \in {0, 171}, n \in 0..MaxRawLen}

----------------------------------------------------------------------------
(* Specifications *)

\* the registry in every runtime; instances made through it
Init == \E c \in AllCaps : InitWith(c, c)

Next ==
    \/ \E k \in Keys : Lookup(k)
    \/ \E k \in Keys, d \in SmallInputs : New("x", k, d)
    \/ Digest("x")

Spec == Init /\ [][Next]_vars

\* the data interface of two instances
InitData == InitWith(FullCaps, FullCaps)

NextData ==
    \/ \E i \in Insts, k \in DataKeys, d \in DataInputs : New(i, k, d)
    \/ \E i \in Insts, d \in DataInputs : SetData(i, d)
    \/ \E i \in Insts, d \in DataInputs : Update(i, d)
    \/ \E i \in Insts : Digest(i)
    \/ \E i \in Insts : Hexdigest(i)

SpecData == InitData /\ [][NextData]_vars

\* the digest adapters on candidates around the truncation lengths
InitDigest == \E c \in AllCaps : InitWith(c, c)

NextDigest ==
    \/ \E k \in Keys, d \in LongInputs : New("x", k, d)
    \/ \E d \in TailInputs : Update("x", d)
    \/ Digest("x")
    \/ Hexdigest("x")

SpecDigest == InitDigest /\ [][NextDigest]_vars

\* two runs of the module that differ only in the optional capabilities
InitPair ==
    \E c \in AllCaps, c2 \in AllCaps : c2.md4 = c.md4 /\ InitWith(c, c2)

NextPair ==
    \/ \E k \in Keys : PairLookup(k)
    \/ \E d \in TailInputs : PairDigest(d)

SpecPair == InitPair /\ [][NextPair]_vars

\* the key encoder on the digests of the catalog and on short byte strings
InitKey == InitWith(FullCaps, FullCaps)

NextKey ==
    \/ \E k \in Keys, d \in SmallInputs : New("x", k, d)
    \/ Digest("x")
    \/ EncodeKey
    \/ \E d \in RawDigests : EncodeRaw(d)

SpecKey == InitKey /\ [][NextKey]_vars

----------------------------------------------------------------------------
(* Properties of the registry *)

UnconditionalKeys == {"md4", "md5", "sha1", "sha2-224", "sha2-256", "sha2-384", "sha2-512",
                      "sha3-224", "sha3-256", "sha3-384", "sha3-512"}

PasslibKeys == {"lm", "ntlm", "mysql323", "mysql41", "oracle10g-sys", "oracle10g-system",
                "msdcc-administrator", "msdcc2-administrator", "postgres_md5-root",
                "postgres_md5-postgres", "postgres_md5-admin"}

\* the backing primitive of a class exists in a runtime with capabilities c
PrimitivePresent(c, cls) ==
    CASE cls = "Md4" -> c.md4
      [] cls = "Ripemd160" -> c.ripemd160
      [] cls \in PasslibClasses -> c.passlib
      [] cls = "Whirlpool" -> c.whirlpool
      [] OTHER -> TRUE

\* the errors digest() raises when its primitive is missing
MissingPrimitiveErrors == {"ValueError", "NameError", "AttributeError"}

\* C1: the registry holds exactly the catalog algorithms usable in the runtime:
\* every catalog algorithm whose primitive is present is registered, and digest()
\* of an instance of a registered class never fails for lack of its primitive.
C1_RegistryExactlyUsable ==
    /\ \A cls \in Classes : PrimitivePresent(caps, cls) => ClassKey(cls) \in DOMAIN algorithms
    /\ ret.op = "digest" => ret.err \notin MissingPrimitiveErrors

\* C2: the hashlib-family and SHA-3 keys are registered in every runtime; the 11
\* passlib keys are registered iff passlib imported, whirlpool iff the whirlpool
\* module imported, ripemd160 iff hashlib reports it available; nothing else is.
C2_ConditionalRegistration ==
    /\ UnconditionalKeys \subseteq DOMAIN algorithms
    /\ \A k \in PasslibKeys : k \in DOMAIN algorithms <=> caps.passlib
    /\ "whirlpool" \in DOMAIN algorithms <=> caps.whirlpool
    /\ "ripemd160" \in DOMAIN algorithms <=> caps.ripemd160
    /\ DOMAIN algorithms \subseteq
           UnconditionalKeys \cup PasslibKeys \cup {"whirlpool", "ripemd160"}
    /\ Cardinality(PasslibKeys) = 11

\* C2 witness: a runtime with whirlpool but without passlib and ripemd160, seen
\* through lookups: "lm" is absent
C2_Witness ==
    /\ ~caps.passlib /\ caps.whirlpool /\ ~caps.ripemd160
    /\ ret.op = "lookup" /\ ret.key = "lm" /\ ret.err = "KeyError"
    /\ "whirlpool" \in DOMAIN algorithms /\ "md5" \in DOMAIN algorithms

\* C3: in two runs that differ only in the optional capabilities, a key registered
\* in both maps to the same class and gives the same digest for the same candidate.
C3_SameEncodingAcrossRuns ==
    /\ \A k \in (DOMAIN algorithms) \cap (DOMAIN algorithms2) :
           algorithms[k] = algorithms2[k]
    /\ (ret.op = "run" /\ ret.key \in (DOMAIN algorithms) \cap (DOMAIN algorithms2)) =>
           /\ ret.cls = ret2.cls
           /\ ret.err = ret2.err
           /\ ret.val = ret2.val

\* C3 witness: the runs have different registries and both digested the same
\* candidate under a key they share
C3_Witness ==
    /\ DOMAIN algorithms # DOMAIN algorithms2
    /\ caps.passlib /\ ~caps2.passlib
    /\ ret.op = "run" /\ ret2.op = "run"
    /\ ret.key = "md4" /\ ret.err = "None" /\ ret2.err = "None"
    /\ Len(ret.val) = 16 /\ ret.val = ret2.val

\* a catalog key whose optional capability is absent from the runtime
CapabilityAbsent(c, k) ==
    \/ k \in PasslibKeys /\ ~c.passlib
    \/ k = "whirlpool" /\ ~c.whirlpool
    \/ k = "ripemd160" /\ ~c.ripemd160

\* C4: looking up a key that is not registered (an unknown key, or a catalog key
\* whose capability is absent) fails with KeyError, yields no class, no instance
\* and no digest, and leaves the registry as it was built.
C4_UnknownKeyFails ==
    /\ (ret.op \in {"lookup", "new"} /\
        (ret.key \notin DOMAIN algorithms \/ ret.key = "does-not-exist"
            \/ CapabilityAbsent(caps, ret.key))) =>
           /\ ret.err = "KeyError"
           /\ ret.cls = "None"
           /\ ret.val = <<>>
           /\ ret.op = "new" => objs[ret.obj] = Blank("None")
    /\ algorithms = BuildRegistry(caps)

\* C4 witness: construction through the key of an algorithm whose capability is
\* absent has failed
C4_Witness ==
    /\ ~caps.whirlpool
    /\ ret.op = "new" /\ ret.key = "whirlpool" /\ ret.err = "KeyError"
    /\ objs["x"] = Blank("None")

----------------------------------------------------------------------------
(* Properties of the digest adapters.  The catalog below is the table of    *)
(* the specification: per key the truncation length (0: none), the         *)
(* primitive, the fixed username, the characters stripped from the         *)
(* primitive's text and the width of the raw digest.                       *)

CatTrunc(k) ==
    CASE k = "lm" -> 15
      [] k = "ntlm" -> 127
      [] k \in PasslibKeys \ {"lm", "ntlm"} -> 64
      [] OTHER -> 0

CatHandler(k) ==
    CASE k = "lm" -> "lmhash" [] k = "ntlm" -> "nthash"
      [] k = "mysql323" -> "mysql323" [] k = "mysql41" -> "mysql41"
      [] k \in {"oracle10g-sys", "oracle10g-system"} -> "oracle10"
      [] k \in {"postgres_md5-root", "postgres_md5-postgres", "postgres_md5-admin"}
            -> "postgres_md5"
      [] k = "msdcc-administrator" -> "msdcc"
      [] k = "msdcc2-administrator" -> "msdcc2"
      [] k = "md4" -> "md4" [] k = "md5" -> "md5" [] k = "sha1" -> "sha1"
      [] k = "sha2-224" -> "sha224" [] k = "sha2-256" -> "sha256"
      [] k = "sha2-384" -> "sha384" [] k = "sha2-512" -> "sha512"
      [] k = "sha3-224" -> "sha3_224" [] k = "sha3-256" -> "sha3_256"
      [] k = "sha3-384" -> "sha3_384" [] k = "sha3-512" -> "sha3_512"
      [] k = "ripemd160" -> "ripemd160" [] k = "whirlpool" -> "whirlpool"

CatUser(k) ==
    CASE k = "oracle10g-sys" -> "SYS" [] k = "oracle10g-system" -> "SYSTEM"
      [] k = "postgres_md5-root" -> "root" [] k = "postgres_md5-postgres" -> "postgres"
      [] k = "postgres_md5-admin" -> "admin"
      [] k \in {"msdcc-administrator", "msdcc2-administrator"} -> "administrator"
      [] OTHER -> ""

CatStrip(k) ==
    CASE k = "mysql41" -> 1
      [] k \in {"postgres_md5-root", "postgres_md5-postgres", "postgres_md5-admin"} -> 3
      [] OTHER -> 0

CatWidth(k) ==
    CASE k \in {"md4", "md5", "lm", "ntlm", "postgres_md5-root", "postgres_md5-postgres",
                "postgres_md5-admin", "msdcc-administrator", "msdcc2-administrator"} -> 16
      [] k \in {"sha1", "ripemd160", "mysql41"} -> 20
      [] k \in {"sha2-224", "sha3-224"} -> 28
      [] k \in {"sha2-256", "sha3-256"} -> 32
      [] k \in {"sha2-384", "sha3-384"} -> 48
      [] k \in {"sha2-512", "sha3-512", "whirlpool"} -> 64
      [] k \in {"mysql323", "oracle10g-sys", "oracle10g-system"} -> 8

\* the catalog's three steps on candidate d: truncate, invoke the primitive with
\* the fixed username, strip the prefix (and decode the hex text)
CatDigest(c, k, d) ==
    IF k \in PasslibKeys
    THEN LET t == passlib_encrypt(c, CatHandler(k), Take(d, CatTrunc(k)), CatUser(k))
         IN  unhexlify(Drop(t.val, CatStrip(k)))
    ELSE IF k = "whirlpool" THEN whirlpool_digest(c, d)
    ELSE hashlib_digest(c, CatHandler(k), d)

\* C5: for every algorithm with a truncation length L, digest of d is the digest
\* of the first L bytes of d, and a candidate longer than L is digested, not
\* rejected.
C5_TruncationPolicy ==
    (ret.op = "digest" /\ CatTrunc(ret.key) > 0) =>
        LET self == objs[ret.obj]
            cut == [self EXCEPT !._data = Bytes(Take(self._data.v, CatTrunc(ret.key)))]
            r == digest(caps, cut)
        IN  /\ ret.err = "None"
            /\ r.err = "None"
            /\ ret.val = r.val

\* C5 witness: an ntlm digest of a candidate longer than 127 bytes
C5_Witness ==
    /\ ret.op = "digest" /\ ret.key = "ntlm" /\ ret.err = "None"
    /\ Len(objs[ret.obj]._data.v) > 127
    /\ objs[ret.obj]._data.v[128] = 98

\* C7: the digest of every catalog algorithm is the result of truncate, primitive
\* with the fixed username, strip; it has the catalog width, which is
\* hex_length / 2: mysql41 gives 20 bytes, postgres_md5-* give 16 bytes.
C7_AdapterStepsAndWidth ==
    (ret.op = "digest" /\ ret.err # "ValueError") =>
        /\ ret.err = "None"
        /\ ret.val = CatDigest(caps, ret.key, objs[ret.obj]._data.v).val
        /\ Len(ret.val) = CatWidth(ret.key)
        /\ 2 * Len(ret.val) = HexLength(ret.cls)
        /\ \A j \in 1..Len(ret.val) : ret.val[j] \in 0..255

\* C7 witness: a 20-byte mysql41 digest of a candidate longer than 64 bytes
C7_Witness ==
    /\ ret.op = "digest" /\ ret.key = "mysql41" /\ ret.err = "None"
    /\ Len(ret.val) = 20
    /\ Len(objs[ret.obj]._data.v) > 64

----------------------------------------------------------------------------
(* Property of the key encoder *)

\* C8: the HASH_PART is exactly 8 bytes: the first 8 bytes of a digest of 8 bytes
\* or more, a shorter digest followed by zero bytes.
C8_HashPartWidth ==
    hashPart.set =>
        /\ Len(hashPart.key) = 8
        /\ \A j \in 1..8 :
               hashPart.key[j] = IF j <= Len(hashPart.src) THEN hashPart.src[j] ELSE 0

\* C8 witness: the HASH_PART of a catalog digest longer than 8 bytes
C8_Witness ==
    /\ hashPart.set
    /\ ret.op = "digest" /\ ret.key = "sha1" /\ hashPart.src = ret.val
    /\ Len(hashPart.src) = 20 /\ Len(hashPart.key) = 8

----------------------------------------------------------------------------
(* Properties of the data interface *)

IsByteString(v) == v.t = "bytes" /\ \A j \in 1..Len(v.v) : v.v[j] \in 0..255

\* text whose every character the fixed encoding (UTF-8) can represent
Encodable(v) == v.t = "str" /\ \A j \in 1..Len(v.v) : ~IsSurrogate(v.v[j])

\* s ends with t
EndsWith(s, t) == Len(s) >= Len(t) /\ SubSeq(s, Len(s) - Len(t) + 1, Len(s)) = t

\* the last operation supplied candidate data to an instance
Supplied ==
    \/ ret.op \in {"setdata", "update"}
    \/ ret.op = "new" /\ ret.key \in DOMAIN algorithms

\* C6: the constructor, assignment to data and update store bytes as given, store
\* text as its UTF-8 encoding and reject every other type with TypeError (the
\* constructor turns None into the empty byte string); the data of an instance
\* is a byte string in every state.
C6_StoredDataIsBytes ==
    /\ \A i \in Insts : objs[i].cls # "None" => IsByteString(objs[i]._data)
    /\ Supplied =>
        LET a == ret.arg
            stored == objs[ret.obj]._data.v
        IN  /\ (a.t = "bytes" \/ Encodable(a)) =>
                /\ ret.err = "None"
                /\ IF ret.op = "update" THEN EndsWith(stored, ArgBytes(a))
                                        ELSE stored = ArgBytes(a)
            /\ (a.t = "NoneType" /\ ret.op = "new") => (ret.err = "None" /\ stored = <<>>)
            /\ (a.t \notin {"bytes", "str"} /\ ~(a.t = "NoneType" /\ ret.op = "new")) =>
                ret.err = "TypeError"

\* C6 witness: text was appended by update and is stored as its UTF-8 bytes
C6_Witness ==
    /\ ret.op = "update" /\ ret.arg = Str(<<8364>>) /\ ret.err = "None"
    /\ objs[ret.obj]._data = Bytes(<<97, 226, 130, 172>>)

\* C9: the data of an instance is the concatenation, in call order, of the bytes
\* accepted since its construction; digest() and hexdigest() are computed over
\* that whole value and leave it alone; operations on one instance leave the other
\* one's data alone.
C9_DataIsConcatenation ==
    /\ \A i \in Insts : objs[i].cls # "None" => objs[i]._data = Bytes(acc[i].v)
    /\ ret.op = "digest" =>
           /\ ret.err = "None"
           /\ ret.val = CatDigest(caps, ret.key, acc[ret.obj].v).val
    /\ ret.op = "hexdigest" =>
           /\ ret.err = "None"
           /\ ret.val = hexlify(CatDigest(caps, ret.key, acc[ret.obj].v).val)

\* C9 witness: a digest of an instance after two updates, beside another instance
\* holding other data
C9_Witness ==
    /\ ret.op = "digest" /\ ret.obj = "x" /\ ret.err = "None"
    /\ acc["x"].n = 2
    /\ objs["x"]._data = Bytes(<<226, 130, 172, 97, 226, 130, 172>>)
    /\ objs["y"]._data = Bytes(<<97>>)

\* C10: a rejected assignment or update (TypeError) leaves every instance's data
\* exactly as it was, so a digest taken afterwards is the digest from before.
C10_RejectedInputKeepsData ==
    [][(ret'.op \in {"setdata", "update"} /\ ret'.err = "TypeError") =>
          /\ objs' = objs
          /\ digest(caps', objs'[ret'.obj]) = digest(caps, objs[ret'.obj])]_vars

\* C10 witness: an update with a value that is neither text nor bytes was rejected
\* on an instance that holds data
C10_Witness ==
    /\ ret.op = "update" /\ ret.arg = IntVal(5) /\ ret.err = "TypeError"
    /\ objs[ret.obj]._data = Bytes(<<97, 97>>)

====
